---- MODULE Spec2Model ----
(***************************************************************************)
(* Model of the estimate scheduler (src/app.py): the booking handlers      *)
(* create_booking / update_booking / delete_booking running on concurrent  *)
(* workers over one SQLite store, the RFMS (CRM) helpers they call, and    *)
(* the locked RFMS session cache.                                          *)
(*                                                                         *)
(* Text is a sequence of atoms (characters of request input, or whole      *)
(* literals of the program), so that str.strip, str(), "+" and "; ".join   *)
(* are computed rather than assumed.  A Python / JSON scalar is a record   *)
(* [ty, s, n]: a str (s), an int (n) or None / a missing key.              *)
(***************************************************************************)
EXTENDS Naturals, Integers, Sequences, FiniteSets, TLC

(* ---------------------------- bounds ----------------------------------- *)
NumWorkers == 2          \* concurrent request workers
MaxRequests == 2         \* requests served in one run
MaxCalls == 3            \* rfms_get_session calls in one run of SessionSpec
MaxNow == 2280           \* the clock of SessionSpec stops here

Workers == 1..NumWorkers
NoWorker == 0

(* ---------------------------- values ----------------------------------- *)
StrV(s) == [ty |-> "str", s |-> s, n |-> 0]
IntV(n) == [ty |-> "int", s |-> <<>>, n |-> n]
NoneV == [ty |-> "none", s |-> <<>>, n |-> 0]
EmptyV == StrV(<<>>)

\* Python truthiness of a scalar: "", 0 and None are false.
Truthy(v) == \/ v.ty = "str" /\ v.s # <<>>
             \/ v.ty = "int" /\ v.n # 0

\* Python "a or b".
Or(a, b) == IF Truthy(a) THEN a ELSE b

Digits == <<"0", "1", "2", "3", "4", "5", "6", "7", "8", "9">>
DigitAtoms == {Digits[i] : i \in 1..10}

RECURSIVE DecText(_)
DecText(n) == IF n < 10 THEN <<Digits[n + 1]>>
              ELSE DecText(n \div 10) \o <<Digits[(n % 10) + 1]>>

\* Python str(v) of a scalar, as text.
PyStr(v) == CASE v.ty = "str" -> v.s
              [] v.ty = "int" -> DecText(v.n)
              [] OTHER -> <<"None">>

Whitespace == {" ", "\t", "\n"}

RECURSIVE LStrip(_)
LStrip(s) == IF s # <<>> /\ Head(s) \in Whitespace THEN LStrip(Tail(s)) ELSE s

RECURSIVE RStrip(_)
RStrip(s) == IF s # <<>> /\ s[Len(s)] \in Whitespace
             THEN RStrip(SubSeq(s, 1, Len(s) - 1)) ELSE s

\* str.strip()
Strip(s) == RStrip(LStrip(s))

\* sep.join(parts) over a sequence of texts
RECURSIVE Join(_, _)
Join(sep, parts) ==
    IF parts = <<>> THEN <<>>
    ELSE IF Len(parts) = 1 THEN parts[1]
    ELSE parts[1] \o sep \o Join(sep, Tail(parts))

DigitValue(a) == CHOOSE i \in 0..9 : Digits[i + 1] = a

RECURSIVE TextNat(_)
TextNat(s) == IF s = <<>> THEN 0
              ELSE 10 * TextNat(SubSeq(s, 1, Len(s) - 1)) + DigitValue(s[Len(s)])

IsDecimal(s) == s # <<>> /\ \A i \in 1..Len(s) : s[i] \in DigitAtoms

\* SQLite column affinity: an INTEGER column turns well-formed numeric text into
\* an integer, a TEXT column turns a number into its text.
IntegerAffinity(v) == IF v.ty = "str" /\ IsDecimal(v.s) THEN IntV(TextNat(v.s)) ELSE v
TextAffinity(v) == IF v.ty = "int" THEN StrV(DecText(v.n)) ELSE v

(* ------------------------ RFMS configuration --------------------------- *)
SESSION_TTL == 1200      \* seconds a cached token is kept
SESSION_MARGIN == 60     \* seconds before expiry at which it is renewed

(* ------------------------- JSON bodies --------------------------------- *)
\* An element of a JSON list: an object with the customer identifier keys, or
\* something that is no object (isdict = FALSE).
Elem(isdict, cid, cid2, id) ==
    [isdict |-> isdict, CustomerID |-> cid, customerId |-> cid2, Id |-> id]

NoList == [present |-> FALSE, items |-> <<>>]
List(items) == [present |-> TRUE, items |-> items]

\* A JSON object with none of the keys the program reads.
EmptyDict ==
    [ty |-> "dict", other |-> FALSE,
     CustomerID |-> NoneV, customerId |-> NoneV, Id |-> NoneV,
     EstimateID |-> NoneV, estimateId |-> NoneV, OpportunityID |-> NoneV,
     message |-> NoneV, error |-> NoneV, sessionToken |-> NoneV,
     customers |-> NoList, results |-> NoList, items |-> <<>>]

JsonList(items) == [EmptyDict EXCEPT !.ty = "list", !.items = items]

IsDict(b) == b.ty = "dict"
IsList(b) == b.ty = "list"

\* bool(body): a non-empty dict or list
BodyTruthy(b) ==
    IF IsList(b) THEN b.items # <<>>
    ELSE \/ b.other \/ b.customers.present \/ b.results.present
         \/ \E k \in {"CustomerID", "customerId", "Id", "EstimateID", "estimateId",
                      "OpportunityID", "message", "error", "sessionToken"} : b[k] # NoneV

(* ------------------------- HTTP responses ------------------------------ *)
\* transport = FALSE: requests raised (timeout, DNS, reset) before any response.
\* content: "empty" (no bytes), "json" (body parses to `body`), "nonjson".
Response(status, reason, content, body) ==
    [transport |-> TRUE, status |-> status, reason |-> reason,
     content |-> content, body |-> body]

TransportFailure == [Response(0, <<>>, "empty", EmptyDict) EXCEPT !.transport = FALSE]

RespOk(r) == r.status < 400

Exc == <<"<exception text>">>

(* ------------------------- session cache ------------------------------- *)
\* A cached token taken as good until the second it expires.
SessionFreshToExpiry(session, t) == Truthy(session.token) /\ session.expires > t

\* rfms_get_session, line 36: the cached token is still good.
SessionFresh(session, t) == Truthy(session.token) /\ session.expires > t + SESSION_MARGIN

\* A failed session/begin that also drops what the cache held.
SessionBeginForgets(session, t, resp) ==
    LET fail == [session |-> [token |-> EmptyV, expires |-> 0], ret |-> EmptyV]
        token == IF resp.body.sessionToken = NoneV THEN EmptyV ELSE resp.body.sessionToken
        cached == [token |-> token, expires |-> t + SESSION_TTL]
    IN  IF ~resp.transport \/ ~RespOk(resp) \/ resp.content # "json" THEN fail
        ELSE IF ~IsDict(resp.body) \/ ~Truthy(token) THEN fail
        ELSE [session |-> cached, ret |-> IF token.ty = "str" THEN token ELSE EmptyV]

\* Lines 40-62: the outcome of session/begin answering `resp` to a caller that
\* read the clock as t.  Gives the cache afterwards and the value returned.
SessionBegin(session, t, resp) ==
    LET fail == [session |-> session, ret |-> EmptyV]
        token == IF resp.body.sessionToken = NoneV THEN EmptyV ELSE resp.body.sessionToken
        cached == [token |-> token, expires |-> t + SESSION_TTL]
    IN  IF ~resp.transport THEN fail                       \* requests.post raised
        ELSE IF ~RespOk(resp) THEN fail                    \* raise_for_status
        ELSE IF resp.content # "json" THEN fail            \* resp.json() raised
        ELSE IF ~IsDict(resp.body) THEN fail               \* data.get raised
        ELSE IF ~Truthy(token) THEN fail                   \* no sessionToken
        ELSE IF token.ty # "str"
             THEN [session |-> cached, ret |-> EmptyV]     \* token[:20] raised after the store
        ELSE [session |-> cached, ret |-> token]

\* rfms_get_session as one step of its critical section.
RfmsGetSession(session, t, resp) ==
    IF SessionFresh(session, t)
    THEN [session |-> session, ret |-> session.token, net |-> <<>>]
    ELSE [session |-> SessionBegin(session, t, resp).session,
          ret |-> SessionBegin(session, t, resp).ret,
          net |-> <<"session/begin">>]

(* --------------------------- rfms_call --------------------------------- *)
NoBody == [has |-> FALSE, body |-> EmptyDict]
Body(b) == [has |-> TRUE, body |-> b]

CallResult(data, err) == [data |-> data, err |-> err]

\* Lines 74-91: the request is made with `token` and answered by `resp`.
RfmsRequest(token, resp) ==
    LET body == IF resp.content = "empty" THEN EmptyDict ELSE resp.body
        err_msg == Or(Or(Or(body.message, body.error), StrV(resp.reason)),
                      StrV(DecText(resp.status)))
        failed == CallResult(NoBody, <<"RFMS request failed: ">> \o Exc)
    IN  IF token.ty # "str" THEN failed                    \* rfms_basic_auth raised
        ELSE IF ~resp.transport THEN failed
        ELSE IF resp.content = "nonjson" THEN failed       \* resp.json() raised
        ELSE IF ~RespOk(resp)
             THEN IF ~IsDict(body) THEN failed             \* body.get raised
                  ELSE CallResult(Body(body), <<"RFMS error ">> \o DecText(resp.status)
                                               \o <<": ">> \o PyStr(err_msg))
        ELSE CallResult(Body(body), <<>>)

\* An rfms_call that asks for a session whether or not the CRM is configured.
RfmsCallSkipsSwitch(enabled, session, t, endpoint, auth, resp) ==
    LET s == RfmsGetSession(session, t, auth)
    IN  IF ~Truthy(s.ret)
        THEN [res |-> CallResult(NoBody, <<"Could not get RFMS session">>),
              session |-> s.session, net |-> s.net]
        ELSE [res |-> RfmsRequest(s.ret, resp),
              session |-> s.session,
              net |-> s.net \o (IF s.ret.ty = "str" THEN <<endpoint>> ELSE <<>>)]

\* rfms_call(method, endpoint, payload): the result, the session cache afterwards
\* and the network requests made, for the answers `auth` (to session/begin, if it
\* is asked) and `resp` (to the request itself, if it is made).
RfmsCall(enabled, session, t, endpoint, auth, resp) ==
    LET s == RfmsGetSession(session, t, auth)
    IN  IF ~enabled
        THEN [res |-> CallResult(NoBody, <<"RFMS not configured">>),
              session |-> session, net |-> <<>>]
        ELSE IF ~Truthy(s.ret)
        THEN [res |-> CallResult(NoBody, <<"Could not get RFMS session">>),
              session |-> s.session, net |-> s.net]
        ELSE [res |-> RfmsRequest(s.ret, resp),
              session |-> s.session,
              net |-> s.net \o (IF s.ret.ty = "str" THEN <<endpoint>> ELSE <<>>)]

(* ------------------------- RFMS sync helpers --------------------------- *)
\* A helper either returns or raises (an exception no handler of the program
\* catches, which ends the request with HTTP 500).
Ret(id, err) == [raised |-> FALSE, id |-> id, err |-> err]
Raised == [raised |-> TRUE, id |-> <<>>, err |-> <<>>]

\* rfms_find_customer, lines 185-193, on the result of its rfms_call.
FindCustomerResult(r) ==
    LET data == r.data.body
        customers == IF IsList(data) THEN List(data.items)
                     ELSE IF data.customers.present THEN data.customers
                     ELSE IF data.results.present THEN data.results
                     ELSE List(<<>>)
        first == customers.items[1]
        cid == Or(Or(Or(first.CustomerID, first.customerId), first.Id), EmptyV)
    IN  IF r.err # <<>> THEN Ret(<<>>, <<>>)
        ELSE IF ~r.data.has THEN Raised
        ELSE IF customers.present /\ Len(customers.items) > 0
             THEN IF first.isdict THEN Ret(PyStr(cid), <<>>) ELSE Raised
        ELSE Ret(<<>>, <<>>)

\* rfms_create_customer, lines 209-215.
CreateCustomerResult(r) ==
    LET data == r.data.body
        cid == Or(Or(Or(data.CustomerID, data.customerId), data.Id), EmptyV)
    IN  IF r.err # <<>> THEN Ret(<<>>, r.err)
        ELSE IF r.data.has /\ BodyTruthy(data)
             THEN IF IsDict(data) THEN Ret(PyStr(cid), <<>>) ELSE Raised
        ELSE Ret(<<>>, <<"No data returned">>)

\* rfms_create_estimate, lines 249-256, on the result of its last rfms_call.
CreateEstimateResult(r) ==
    LET data == r.data.body
        eid == Or(Or(Or(Or(data.EstimateID, data.estimateId), data.OpportunityID),
                     data.Id), EmptyV)
    IN  IF r.err # <<>> THEN Ret(<<>>, r.err)
        ELSE IF r.data.has /\ BodyTruthy(data)
             THEN IF IsDict(data) THEN Ret(PyStr(eid), <<>>) ELSE Raised
        ELSE Ret(<<>>, <<"No data returned">>)

(* --------------------------- request JSON ------------------------------ *)
Keys == {"date", "time_slot", "estimator_id", "first_name", "last_name", "phone",
         "created_by", "edited_by", "deleted_by", "email", "address", "city",
         "state", "zip", "flooring_type", "rooms", "notes"}

\* A request body with no key at all; a missing key is NoneV.
NoKeys == [k \in Keys |-> NoneV]

\* data.get(key, default)
Get(data, key, default) == IF data[key] = NoneV THEN default ELSE data[key]

\* data.get(key, "").strip() raises unless the value is a str.
CanStrip(data, keys) == \A k \in keys : Get(data, k, EmptyV).ty = "str"
Stripped(data, key) == StrV(Strip(Get(data, key, EmptyV).s))

(* ------------------------------ store ---------------------------------- *)
\* A row of bookings (lines 125-147), after the column affinities; created_at,
\* a timestamp no handler reads back, is left out.
BookingRow(id, date, time_slot, estimator_id, first_name, last_name, phone, data, created_by, rfms_cust_id, rfms_est_id) ==
    [id |-> id,
     date |-> TextAffinity(date),
     time_slot |-> TextAffinity(time_slot),
     estimator_id |-> IntegerAffinity(estimator_id),
     first_name |-> TextAffinity(first_name),
     last_name |-> TextAffinity(last_name),
     phone |-> TextAffinity(phone),
     email |-> TextAffinity(Get(data, "email", EmptyV)),
     address |-> TextAffinity(Get(data, "address", EmptyV)),
     city |-> TextAffinity(Get(data, "city", EmptyV)),
     state |-> TextAffinity(Get(data, "state", EmptyV)),
     zip |-> TextAffinity(Get(data, "zip", EmptyV)),
     flooring_type |-> TextAffinity(Get(data, "flooring_type", EmptyV)),
     rooms |-> IntegerAffinity(Get(data, "rooms", IntV(1))),
     notes |-> TextAffinity(Get(data, "notes", EmptyV)),
     created_by |-> TextAffinity(created_by),
     rfms_customer_id |-> StrV(rfms_cust_id),
     rfms_estimate_id |-> StrV(rfms_est_id)]

SlotOf(b) == <<b.date, b.time_slot, b.estimator_id>>

\* Lines 395-397: SELECT id FROM bookings WHERE date=? AND time_slot=? AND estimator_id=?
SelectSlot(rows, date, time_slot, estimator_id) ==
    {b \in rows : /\ b.date = TextAffinity(date)
                  /\ b.time_slot = TextAffinity(time_slot)
                  /\ b.estimator_id = IntegerAffinity(estimator_id)}

\* A bookings table declared without its UNIQUE constraint.
UniqueNotDeclared(rows, row) == FALSE

\* Line 146: UNIQUE(date, time_slot, estimator_id), checked by the store on INSERT.
UniqueViolation(rows, row) == \E b \in rows : SlotOf(b) = SlotOf(row)

\* SELECT * FROM bookings WHERE id=?
SelectId(rows, bid) == {b \in rows : b.id = bid}

\* An UPDATE that also takes date, time_slot and estimator_id from the payload.
UpdatedRowAndSlot(b, first_name, last_name, phone, data) ==
    [b EXCEPT !.first_name = TextAffinity(first_name),
              !.last_name = TextAffinity(last_name),
              !.phone = TextAffinity(phone),
              !.notes = TextAffinity(Get(data, "notes", EmptyV)),
              !.date = TextAffinity(Get(data, "date", b.date)),
              !.time_slot = TextAffinity(Get(data, "time_slot", b.time_slot)),
              !.estimator_id = IntegerAffinity(Get(data, "estimator_id", b.estimator_id))]

\* Lines 480-486: UPDATE bookings SET first_name=?,...,notes=? WHERE id=?
UpdatedRow(b, first_name, last_name, phone, data) ==
    [b EXCEPT !.first_name = TextAffinity(first_name),
              !.last_name = TextAffinity(last_name),
              !.phone = TextAffinity(phone),
              !.email = TextAffinity(Get(data, "email", EmptyV)),
              !.address = TextAffinity(Get(data, "address", EmptyV)),
              !.city = TextAffinity(Get(data, "city", EmptyV)),
              !.state = TextAffinity(Get(data, "state", EmptyV)),
              !.zip = TextAffinity(Get(data, "zip", EmptyV)),
              !.flooring_type = TextAffinity(Get(data, "flooring_type", EmptyV)),
              !.rooms = IntegerAffinity(Get(data, "rooms", IntV(1))),
              !.notes = TextAffinity(Get(data, "notes", EmptyV))]

UpdateWhereId(rows, bid, first_name, last_name, phone, data) ==
    {IF b.id = bid THEN UpdatedRow(b, first_name, last_name, phone, data) ELSE b : b \in rows}

\* A DELETE that removes nothing.
DeleteWhereIdNone(rows, bid) == rows

\* Line 509: DELETE FROM bookings WHERE id=?
DeleteWhereId(rows, bid) == {b \in rows : b.id # bid}

\* A row of booking_log (lines 148-156); its id is its position in the table.
LogEntry(booking_id, action, changed_by, details) ==
    [booking_id |-> booking_id, action |-> action,
     changed_by |-> TextAffinity(changed_by), details |-> details]

(* ----------------------- handler computations -------------------------- *)
\* create_booking, lines 384-390: the values that are stripped.
CreateStripped == {"date", "time_slot", "first_name", "last_name", "phone", "created_by"}

\* Line 392: all([date, time_slot, estimator_id, first_name, last_name, phone])
CreateRequired(data) ==
    /\ \A k \in {"date", "time_slot", "first_name", "last_name", "phone"} :
           Truthy(Stripped(data, k))
    /\ Truthy(data["estimator_id"])

\* Lines 443-445: the details of the Created entry.
CreatedDetail(parts) ==
    <<"Estimate created">> \o (IF parts # <<>> THEN <<". ">> \o Join(<<"; ">>, parts) ELSE <<>>)

\* update_booking, lines 462-465.
UpdateStripped == {"first_name", "last_name", "phone", "edited_by"}

\* Line 467: all([first_name, last_name, phone])
UpdateRequired(data) ==
    \A k \in {"first_name", "last_name", "phone"} : Truthy(Stripped(data, k))

\* Lines 471-473: the fields compared, with their labels.
Fields == << <<"first_name", "First Name">>, <<"last_name", "Last Name">>,
             <<"phone", "Phone">>, <<"email", "Email">>, <<"address", "Address">>,
             <<"city", "City">>, <<"state", "State">>, <<"zip", "ZIP">>,
             <<"flooring_type", "Flooring">>, <<"rooms", "Rooms">>, <<"notes", "Notes">> >>

\* Line 478: '{}: "{}" -> "{}"'.format(label, old_val, new_val)
Fragment(label, old_val, new_val) ==
    <<label, ": \"">> \o old_val \o <<"\" -> \"">> \o new_val \o <<"\"">>

OldVal(old, key) == PyStr(Or(old[key], EmptyV))
NewVal(data, key) == PyStr(Or(Get(data, key, EmptyV), EmptyV))

\* Lines 474-478: the fragments of fields i.. of the list.
RECURSIVE ChangesFrom(_, _, _)
ChangesFrom(i, old, data) ==
    IF i > Len(Fields) THEN <<>>
    ELSE (IF OldVal(old, Fields[i][1]) # NewVal(data, Fields[i][1])
          THEN <<Fragment(Fields[i][2], OldVal(old, Fields[i][1]), NewVal(data, Fields[i][1]))>>
          ELSE <<>>) \o ChangesFrom(i + 1, old, data)

Changes(old, data) == ChangesFrom(1, old, data)

\* Line 495
EditedDetail(changes) ==
    IF changes # <<>> THEN Join(<<"; ">>, changes) ELSE <<"Opened and saved (no changes)">>

(* ------------------------------ state ---------------------------------- *)
VARIABLES
    RFMS_ENABLED,   \* line 16, fixed when the process starts
    rfms_session,   \* lines 19-23: [token, expires]
    lock,           \* rfms_session["lock"]: the worker holding it, or NoWorker
    now,            \* time.time()
    bookings,       \* the rows of table bookings
    seq,            \* AUTOINCREMENT counter of bookings
    booking_log,    \* table booking_log, in insertion order
    writer,         \* the worker whose connection holds the store's write lock
    req,            \* per worker: the request it serves and its locals
    nreq,           \* requests started so far
    calls,          \* ghost: rfms_get_session calls started so far (SessionSpec)
    time_off,       \* the committed rows of table time_off
    offseq          \* AUTOINCREMENT counter of time_off

vars == <<RFMS_ENABLED, rfms_session, lock, now, bookings, seq, booking_log, writer,
          req, nreq, calls, time_off, offseq>>

offVars == <<time_off, offseq>>

storeVars == <<bookings, seq, booking_log>>
sessionVars == <<rfms_session, lock, now, calls>>

\* A worker between requests.
Idle ==
    [op |-> "none", pc |-> "idle", data |-> NoKeys, bid |-> 0,
     rfms_cust_id |-> <<>>, rfms_est_id |-> <<>>, rfms_log_parts |-> <<>>,
     old |-> {}, changes |-> <<>>, status |-> 0,
     stage |-> "idle", net |-> <<>>, rows |-> 0, logs |-> <<>>,
     now |-> 0, token |-> EmptyV, resp |-> TransportFailure,
     res |-> CallResult(NoBody, <<>>), dates |-> <<>>, pending |-> {}]

Init ==
    /\ RFMS_ENABLED \in BOOLEAN
    /\ rfms_session = [token |-> EmptyV, expires |-> 0]
    /\ lock = NoWorker
    /\ now = 0
    /\ bookings = {}
    /\ seq = 0
    /\ booking_log = <<>>
    /\ writer = NoWorker
    /\ req = [t \in Workers |-> Idle]
    /\ nreq = 0
    /\ calls = 0
    /\ time_off = {}
    /\ offseq = 0

(* ---------------------------- time_off --------------------------------- *)
\* SQL "=": NULL equals nothing.
SqlEq(a, b) == a # NoneV /\ b # NoneV /\ a = b

\* A row of time_off (lines 157-165) after the column affinities.
OffRow(id, estimator_id, date, day_of_week, label, recurring) ==
    [id |-> id,
     estimator_id |-> IntegerAffinity(estimator_id),
     date |-> TextAffinity(date),
     day_of_week |-> IntegerAffinity(day_of_week),
     label |-> TextAffinity(label),
     recurring |-> recurring]

\* Line 553: WHERE estimator_id=? AND recurring=1 AND day_of_week=?
RecurringMatches(o, estimator_id, day_of_week) ==
    /\ SqlEq(o.estimator_id, IntegerAffinity(estimator_id))
    /\ o.recurring = 1
    /\ SqlEq(o.day_of_week, IntegerAffinity(day_of_week))

\* Line 560: SELECT id FROM time_off WHERE estimator_id=? AND date=? AND recurring=0
SelectOneOff(rows, estimator_id, date) ==
    {o \in rows : /\ SqlEq(o.estimator_id, IntegerAffinity(estimator_id))
                  /\ SqlEq(o.date, TextAffinity(date))
                  /\ o.recurring = 0}

(* ---------------------------- inputs ----------------------------------- *)

T(a) == StrV(<<a>>)

\* Requests to create a booking: two for the same slot (the second with padding
\* and a numeric estimator id sent as text), one for another estimator's slot,
\* one whose phone is blank.
CreateA == [NoKeys EXCEPT !.date = T("d1"), !.time_slot = T("s1"), !.estimator_id = IntV(1),
                          !.first_name = T("J"), !.last_name = T("D"), !.phone = T("5")]
CreateA2 == [CreateA EXCEPT !.date = StrV(<<" ", "d1">>), !.estimator_id = T("1"),
                            !.first_name = T("K")]
CreateB == [CreateA EXCEPT !.estimator_id = IntV(2)]
CreateBlank == [CreateA EXCEPT !.phone = T(" ")]
FewCreatePayloads == {CreateA, CreateA2, CreateB, CreateBlank}

\* Edits: one that repeats what CreateA stored, one that changes the notes and
\* names another slot, one with a padded name and no rooms key, one without a name.
EditSame == [NoKeys EXCEPT !.first_name = T("J"), !.last_name = T("D"), !.phone = T("5"),
                           !.email = EmptyV, !.address = EmptyV, !.city = EmptyV,
                           !.state = EmptyV, !.zip = EmptyV, !.flooring_type = EmptyV,
                           !.rooms = IntV(1), !.notes = EmptyV]
EditNotes == [EditSame EXCEPT !.notes = T("n"), !.date = T("d2"), !.time_slot = T("s2"),
                              !.estimator_id = IntV(2), !.edited_by = T("e")]
EditPadded == [NoKeys EXCEPT !.first_name = StrV(<<" ", "J">>), !.last_name = T("D"),
                             !.phone = T("5")]
EditNoName == [EditSame EXCEPT !.first_name = NoneV]
UpdatePayloads == {EditSame, EditNotes, EditPadded, EditNoName}
FewUpdatePayloads == {EditNotes, EditNoName}

DeletePayloads == {NoKeys}

\* Answers of the CRM to a request.
WithCustomer == [EmptyDict EXCEPT !.CustomerID = IntV(7), !.EstimateID = IntV(9)]
Responses ==
    {TransportFailure,
     Response(200, <<"OK">>, "nonjson", EmptyDict),
     Response(200, <<"OK">>, "empty", EmptyDict),
     Response(500, <<"Server Error">>, "json", [EmptyDict EXCEPT !.message = T("boom")]),
     Response(500, <<"Server Error">>, "json", JsonList(<<>>)),
     Response(200, <<"OK">>, "json", WithCustomer),
     Response(200, <<"OK">>, "json", [EmptyDict EXCEPT !.other = TRUE]),
     Response(200, <<"OK">>, "json", [EmptyDict EXCEPT
         !.customers = List(<<Elem(TRUE, NoneV, T("c8"), NoneV)>>)]),
     Response(200, <<"OK">>, "json", JsonList(<<Elem(TRUE, IntV(7), NoneV, NoneV)>>)),
     Response(200, <<"OK">>, "json", JsonList(<<Elem(FALSE, NoneV, NoneV, NoneV)>>)),
     Response(200, <<"OK">>, "json", JsonList(<<>>))}

\* Answers of the CRM to session/begin.
AuthResponses ==
    {TransportFailure,
     Response(401, <<"Unauthorized">>, "json", EmptyDict),
     Response(200, <<"OK">>, "json", [EmptyDict EXCEPT !.other = TRUE]),
     Response(200, <<"OK">>, "json", JsonList(<<>>)),
     Response(200, <<"OK">>, "json", [EmptyDict EXCEPT !.sessionToken = IntV(5)]),
     Response(200, <<"OK">>, "json", [EmptyDict EXCEPT !.sessionToken = T("tok")])}

\* The answers used where workers race: a failure, an object, a list.
FewResponses ==
    {TransportFailure,
     Response(200, <<"OK">>, "json", WithCustomer),
     Response(200, <<"OK">>, "json", JsonList(<<Elem(FALSE, NoneV, NoneV, NoneV)>>))}
FewAuthResponses ==
    {Response(200, <<"OK">>, "json", [EmptyDict EXCEPT !.sessionToken = T("tok")])}

\* Workers are interchangeable: a request goes to the first idle one.
Takes(t) == req[t].pc = "idle" /\ \A u \in Workers : u < t => req[u].pc # "idle"

(* ------------------------- create_booking ------------------------------ *)
\* The request ends with an HTTP status; stage keeps where it stood.
Done(r, status) == [r EXCEPT !.pc = "done", !.status = status, !.stage = r.pc]

\* Lines 382-399: parse, validate and pre-check the slot.
CreateBooking(t, Payloads) ==
    /\ Takes(t)
    /\ nreq < MaxRequests
    /\ \E data \in Payloads :
         LET r == [Idle EXCEPT !.op = "create", !.data = data]
         IN  req' = [req EXCEPT ![t] =
                IF ~CanStrip(data, CreateStripped) THEN Done(r, 500)
                ELSE IF ~CreateRequired(data) THEN Done(r, 400)
                ELSE IF SelectSlot(bookings, Stripped(data, "date"),
                                   Stripped(data, "time_slot"), data["estimator_id"]) # {}
                     THEN Done(r, 409)
                ELSE [r EXCEPT !.pc = IF RFMS_ENABLED THEN "sync" ELSE "insert"]]
    /\ nreq' = nreq + 1
    /\ UNCHANGED <<RFMS_ENABLED, offVars, storeVars, writer, sessionVars>>

\* The outcomes an rfms_call can have: its result, the session cache after it and
\* the requests it made, over the answers the CRM may give.
Calls(enabled, session, t, endpoint, Auths, Resps) ==
    {RfmsCall(enabled, session, t, endpoint, auth, resp) : auth \in Auths, resp \in Resps}

\* The CRM phase of create_booking moves a pair [r, session]: the request's locals
\* (r.pc is where the phase stands) and the session cache.
Moved(x, c, r) == [r |-> [r EXCEPT !.net = @ \o c.net], session |-> c.session]

\* Lines 408-411: rfms_find_customer(phone), on the outcome c of its call.
FindStep(x, c) ==
    LET f == FindCustomerResult(c.res)
    IN  Moved(x, c,
            IF f.raised THEN Done(x.r, 500)
            ELSE IF f.id # <<>>
            THEN [x.r EXCEPT !.rfms_cust_id = f.id,
                             !.rfms_log_parts = Append(@, <<"Found existing RFMS customer: ">> \o f.id),
                             !.pc = "estimate"]
            ELSE [x.r EXCEPT !.pc = "newcust"])

\* A create_booking that goes on to the estimate although no customer was made.
CustomerStepPressesOn(x, c) ==
    LET f == CreateCustomerResult(c.res)
    IN  Moved(x, c,
            IF f.raised THEN Done(x.r, 500)
            ELSE IF f.id # <<>>
            THEN [x.r EXCEPT !.rfms_cust_id = f.id,
                             !.rfms_log_parts = Append(@, <<"Created RFMS customer: ">> \o f.id),
                             !.pc = "estimate"]
            ELSE [x.r EXCEPT !.rfms_log_parts = Append(@, <<"RFMS customer creation failed: ">> \o f.err),
                             !.pc = "estimate"])

\* Lines 413-417: rfms_create_customer(data).
CustomerStep(x, c) ==
    LET f == CreateCustomerResult(c.res)
    IN  Moved(x, c,
            IF f.raised THEN Done(x.r, 500)
            ELSE IF f.id # <<>>
            THEN [x.r EXCEPT !.rfms_cust_id = f.id,
                             !.rfms_log_parts = Append(@, <<"Created RFMS customer: ">> \o f.id),
                             !.pc = "estimate"]
            ELSE [x.r EXCEPT !.rfms_log_parts = Append(@, <<"RFMS customer creation failed: ">> \o f.err),
                             !.pc = "insert"])

\* Lines 423-427: what create_booking does with rfms_create_estimate's result.
AfterEstimate(r, f) ==
    IF f.raised THEN Done(r, 500)
    ELSE IF f.id # <<>>
    THEN [r EXCEPT !.rfms_est_id = f.id,
                   !.rfms_log_parts = Append(@, <<"Created RFMS estimate: ">> \o f.id),
                   !.pc = "insert"]
    ELSE [r EXCEPT !.rfms_log_parts = Append(@, <<"RFMS estimate creation failed: ">> \o f.err),
                   !.pc = "insert"]

\* Lines 420-423 and 245: rfms_create_estimate posts to "estimates".
EstimateStep(x, c) ==
    Moved(x, c, IF c.res.err # <<>> THEN [x.r EXCEPT !.pc = "estimate_alt"]
                ELSE AfterEstimate(x.r, CreateEstimateResult(c.res)))

\* Lines 246-248: on an error it posts once more, to "opportunities".
AlternateStep(x, c) == Moved(x, c, AfterEstimate(x.r, CreateEstimateResult(c.res)))

\* Lines 406-427: the whole CRM phase from the locals r and the cache `session`,
\* every way the CRM may answer its calls.  The phase reads and writes nothing of
\* the store, and the session cache only inside rfms_get_session's lock.
SyncOutcomes(enabled, r, session, t, Auths, Resps) ==
    LET found == {FindStep([r |-> r, session |-> session], c) :
                     c \in Calls(enabled, session, t, "customers?search", Auths, Resps)}
        resolved == UNION {IF x.r.pc = "newcust"
                           THEN {CustomerStep(x, c) :
                                    c \in Calls(enabled, x.session, t, "customers", Auths, Resps)}
                           ELSE {x} : x \in found}
        posted == UNION {IF x.r.pc = "estimate"
                         THEN {EstimateStep(x, c) :
                                  c \in Calls(enabled, x.session, t, "estimates", Auths, Resps)}
                         ELSE {x} : x \in resolved}
    IN  UNION {IF x.r.pc = "estimate_alt"
               THEN {AlternateStep(x, c) :
                        c \in Calls(enabled, x.session, t, "opportunities", Auths, Resps)}
               ELSE {x} : x \in posted}

\* Lines 406-427 as one step of worker t.
SyncCrm(t, Auths, Resps) ==
    /\ req[t].pc = "sync"
    /\ lock = NoWorker
    /\ \E x \in SyncOutcomes(RFMS_ENABLED, req[t], rfms_session, now, Auths, Resps) :
         /\ req' = [req EXCEPT ![t] = x.r]
         /\ rfms_session' = x.session
    /\ UNCHANGED <<RFMS_ENABLED, offVars, storeVars, writer, lock, now, calls, nreq>>

\* The row create_booking inserts (lines 430-440).
NewBooking(id, r) ==
    BookingRow(id, Stripped(r.data, "date"), Stripped(r.data, "time_slot"),
               r.data["estimator_id"], Stripped(r.data, "first_name"),
               Stripped(r.data, "last_name"), Stripped(r.data, "phone"), r.data,
               Stripped(r.data, "created_by"), r.rfms_cust_id, r.rfms_est_id)

\* An INSERT whose refused row stays in the table.
InsertRowKeepsRefused(rows, row) ==
    [ok |-> ~UniqueViolation(rows, row), rows |-> rows \cup {row}]

\* INSERT INTO bookings: the store refuses a row that breaks UNIQUE.
InsertRow(rows, row) ==
    IF UniqueViolation(rows, row) THEN [ok |-> FALSE, rows |-> rows]
    ELSE [ok |-> TRUE, rows |-> rows \cup {row}]

\* Lines 429-442 and 450-451: INSERT and commit, or sqlite3.IntegrityError.
InsertBooking(t) ==
    /\ req[t].pc = "insert"
    /\ writer = NoWorker
    /\ LET ins == InsertRow(bookings, NewBooking(seq + 1, req[t]))
       IN  /\ bookings' = ins.rows
           /\ seq' = IF ins.ok THEN seq + 1 ELSE seq
           /\ req' = [req EXCEPT ![t] =
                  IF ins.ok THEN [@ EXCEPT !.bid = seq + 1, !.rows = 1, !.pc = "log"]
                  ELSE Done(@, 409)]
    /\ UNCHANGED <<RFMS_ENABLED, offVars, booking_log, writer, sessionVars, nreq>>

\* The Created entry (lines 443-447).
CreatedEntry(r) ==
    LogEntry(r.bid, "Created", Or(Stripped(r.data, "created_by"), T("Unknown")),
             CreatedDetail(r.rfms_log_parts))

\* Lines 443-449: the Created entry, its commit, and the 201 answer.
LogCreated(t) ==
    /\ req[t].pc = "log"
    /\ writer = NoWorker
    /\ booking_log' = Append(booking_log, CreatedEntry(req[t]))
    /\ req' = [req EXCEPT ![t] = Done([@ EXCEPT !.logs = Append(@, CreatedEntry(req[t]))], 201)]
    /\ UNCHANGED <<RFMS_ENABLED, offVars, bookings, seq, writer, sessionVars, nreq>>

(* ------------------------- update_booking ------------------------------ *)
\* Lines 456-478: load the booking, validate, compute the diff.
UpdateBooking(t, Payloads) ==
    /\ Takes(t)
    /\ nreq < MaxRequests
    /\ \E bid \in 1..(seq + 1), data \in Payloads :
         LET r == [Idle EXCEPT !.op = "update", !.data = data, !.bid = bid]
             old == SelectId(bookings, bid)
         IN  req' = [req EXCEPT ![t] =
                IF old = {} THEN Done(r, 404)
                ELSE IF ~CanStrip(data, UpdateStripped) THEN Done(r, 500)
                ELSE IF ~UpdateRequired(data) THEN Done(r, 400)
                ELSE [r EXCEPT !.old = old,
                               !.changes = Changes(CHOOSE b \in old : TRUE, data),
                               !.pc = "update"]]
    /\ nreq' = nreq + 1
    /\ UNCHANGED <<RFMS_ENABLED, offVars, storeVars, writer, sessionVars>>

OldRow(r) == CHOOSE b \in r.old : TRUE

\* Lines 490-491: the CRM is told of the edit.
SyncsEdit(enabled, old) == enabled /\ Truthy(old.rfms_customer_id)

\* Lines 480-486: the UPDATE opens the connection's write transaction, which
\* stays open over the CRM call of lines 491-493.
UpdateWrite(t) ==
    /\ req[t].pc = "update"
    /\ writer = NoWorker
    /\ SyncsEdit(RFMS_ENABLED, OldRow(req[t]))
    /\ writer' = t
    /\ req' = [req EXCEPT ![t] = [@ EXCEPT !.pc = "crm"]]
    /\ UNCHANGED <<RFMS_ENABLED, offVars, storeVars, sessionVars, nreq>>

\* Lines 492-493: rfms_update_customer, whatever its outcome.
UpdateCustomer(t, Auths, Resps) ==
    /\ req[t].pc = "crm"
    /\ lock = NoWorker
    /\ \E auth \in Auths, resp \in Resps :
         LET c == RfmsCall(RFMS_ENABLED, rfms_session, now, "customers/<id>", auth, resp)
         IN  /\ rfms_session' = c.session
             /\ req' = [req EXCEPT ![t] =
                    [@ EXCEPT !.net = @ \o c.net,
                              !.changes = Append(@, <<"RFMS customer record updated">>),
                              !.pc = "commit"]]
    /\ UNCHANGED <<RFMS_ENABLED, offVars, storeVars, writer, lock, now, calls, nreq>>

\* The Edited entry (lines 495-497).
EditedEntry(r) ==
    LogEntry(r.bid, "Edited", Or(Stripped(r.data, "edited_by"), T("Unknown")),
             EditedDetail(r.changes))

\* Lines 480-499 with no CRM call (UPDATE, Edited entry and commit follow one
\* another), or lines 495-499 after the CRM call.
UpdateCommit(t) ==
    /\ \/ req[t].pc = "commit" /\ writer = t
       \/ req[t].pc = "update" /\ writer = NoWorker /\ ~SyncsEdit(RFMS_ENABLED, OldRow(req[t]))
    /\ bookings' = UpdateWhereId(bookings, req[t].bid, Stripped(req[t].data, "first_name"),
                                 Stripped(req[t].data, "last_name"),
                                 Stripped(req[t].data, "phone"), req[t].data)
    /\ booking_log' = Append(booking_log, EditedEntry(req[t]))
    /\ writer' = NoWorker
    /\ req' = [req EXCEPT ![t] =
           Done([@ EXCEPT !.rows = Cardinality(SelectId(bookings, req[t].bid)),
                          !.logs = Append(@, EditedEntry(req[t]))], 200)]
    /\ UNCHANGED <<RFMS_ENABLED, offVars, seq, sessionVars, nreq>>

(* ------------------------- delete_booking ------------------------------ *)
\* A cancel logged under the wrong action tag.
CancelledEntryMistagged(r) ==
    LogEntry(r.bid, "Edited", Get(r.data, "deleted_by", T("Unknown")),
             <<"Estimate cancelled">>)

\* Lines 505-508: the Cancelled entry.
CancelledEntry(r) ==
    LogEntry(r.bid, "Cancelled", Get(r.data, "deleted_by", T("Unknown")),
             <<"Estimate cancelled">>)

\* Lines 504-506: the request is read.
DeleteBooking(t) ==
    /\ Takes(t)
    /\ nreq < MaxRequests
    /\ \E bid \in 1..(seq + 1), data \in DeletePayloads :
         req' = [req EXCEPT ![t] =
                    [Idle EXCEPT !.op = "delete", !.data = data, !.bid = bid, !.pc = "delete"]]
    /\ nreq' = nreq + 1
    /\ UNCHANGED <<RFMS_ENABLED, offVars, storeVars, writer, sessionVars>>

\* A cancel that also purges the booking's earlier log entries.
DeleteWritePurgesLog(t) ==
    /\ req[t].pc = "delete"
    /\ writer = NoWorker
    /\ booking_log' = Append(SelectSeq(booking_log, LAMBDA e : e.booking_id # req[t].bid),
                             CancelledEntry(req[t]))
    /\ bookings' = DeleteWhereId(bookings, req[t].bid)
    /\ req' = [req EXCEPT ![t] =
           Done([@ EXCEPT !.rows = Cardinality(SelectId(bookings, req[t].bid)),
                          !.logs = <<CancelledEntry(req[t])>>], 200)]
    /\ UNCHANGED <<RFMS_ENABLED, offVars, seq, writer, sessionVars, nreq>>

\* Lines 507-511: the Cancelled entry, the DELETE and their commit.
DeleteWrite(t) ==
    /\ req[t].pc = "delete"
    /\ writer = NoWorker
    /\ booking_log' = Append(booking_log, CancelledEntry(req[t]))
    /\ bookings' = DeleteWhereId(bookings, req[t].bid)
    /\ req' = [req EXCEPT ![t] =
           Done([@ EXCEPT !.rows = Cardinality(SelectId(bookings, req[t].bid)),
                          !.logs = <<CancelledEntry(req[t])>>], 200)]
    /\ UNCHANGED <<RFMS_ENABLED, offVars, seq, writer, sessionVars, nreq>>

(* --------------------------- the store's lock -------------------------- *)
\* Line 100: a statement that must write waits for the connection holding the
\* write lock; after busy_timeout it raises sqlite3.OperationalError, which no
\* handler catches.
DbLocked(t) ==
    /\ req[t].pc \in {"insert", "log", "update", "delete",
                     "off_recurring", "off_insert", "off_delete", "roster"}
    /\ writer \notin {NoWorker, t}
    /\ req' = [req EXCEPT ![t] = Done(@, 500)]
    /\ UNCHANGED <<RFMS_ENABLED, offVars, storeVars, writer, sessionVars, nreq>>

\* The answer is sent and the worker takes the next request.
Return(t) ==
    /\ req[t].pc = "done"
    /\ req' = [req EXCEPT ![t] = Idle]
    /\ UNCHANGED <<RFMS_ENABLED, offVars, storeVars, writer, sessionVars, nreq>>

Next ==
    \E t \in Workers :
        \/ CreateBooking(t, FewCreatePayloads)
        \/ SyncCrm(t, FewAuthResponses, FewResponses)
        \/ InsertBooking(t)
        \/ LogCreated(t)
        \/ UpdateBooking(t, FewUpdatePayloads)
        \/ UpdateWrite(t)
        \/ UpdateCustomer(t, FewAuthResponses, FewResponses)
        \/ UpdateCommit(t)
        \/ DeleteBooking(t)
        \/ DeleteWrite(t)
        \/ DbLocked(t)
        \/ Return(t)

Spec == Init /\ [][Next]_vars

\* One worker serving requests one after another, the CRM answering in every way
\* listed in Responses and AuthResponses.
CrmNext ==
    \/ CreateBooking(1, FewCreatePayloads)
    \/ SyncCrm(1, AuthResponses, Responses)
    \/ InsertBooking(1)
    \/ LogCreated(1)
    \/ UpdateBooking(1, UpdatePayloads)
    \/ UpdateWrite(1)
    \/ UpdateCustomer(1, AuthResponses, Responses)
    \/ UpdateCommit(1)
    \/ DeleteBooking(1)
    \/ DeleteWrite(1)
    \/ Return(1)

CrmSpec == Init /\ [][CrmNext]_vars

(* ------------------------ rfms_get_session ---------------------------- *)
\* Answers of the CRM to session/begin, the server issuing one of two tokens.
SessionResponses ==
    AuthResponses \cup
        {Response(200, <<"OK">>, "json", [EmptyDict EXCEPT !.sessionToken = T("tok2")]),
         Response(200, <<"OK">>, "json", [EmptyDict EXCEPT !.sessionToken = EmptyV]),
         Response(200, <<"OK">>, "nonjson", EmptyDict)}

\* The clock advances by half the time a cached token stays fresh.
Quantum == (SESSION_TTL - SESSION_MARGIN) \div 2

\* A lock that excludes nobody.
LockNeverHeld(l) == TRUE

\* Line 33: threading.Lock can be acquired when no thread holds it.
LockFree(l) == l = NoWorker

\* Lines 33-36 and 41: a thread enters the critical section, reads the clock
\* and either returns the cached token, leaving the section, or posts
\* session/begin and waits for the answer inside the section.
SessionEnter(t) ==
    /\ Takes(t)
    /\ calls < MaxCalls
    /\ LockFree(lock)
    /\ calls' = calls + 1
    /\ IF SessionFresh(rfms_session, now)
       THEN /\ req' = [req EXCEPT ![t] =
                   Done([Idle EXCEPT !.op = "session", !.pc = "check", !.now = now,
                                     !.token = rfms_session.token], 0)]
            /\ lock' = NoWorker
       ELSE /\ req' = [req EXCEPT ![t] =
                   [Idle EXCEPT !.op = "session", !.pc = "begin", !.now = now,
                                !.net = <<"session/begin">>]]
            /\ lock' = t
    /\ UNCHANGED <<RFMS_ENABLED, offVars, rfms_session, now, storeVars, writer, nreq>>

\* Lines 41-62: session/begin is answered (or fails); the cache is written, the
\* value returned and the lock released.
SessionAnswer(t) ==
    /\ req[t].pc = "begin"
    /\ \E resp \in SessionResponses :
         LET b == SessionBegin(rfms_session, req[t].now, resp)
         IN  /\ rfms_session' = b.session
             /\ req' = [req EXCEPT ![t] = Done([@ EXCEPT !.token = b.ret, !.resp = resp], 0)]
    /\ lock' = NoWorker
    /\ UNCHANGED <<RFMS_ENABLED, offVars, now, calls, storeVars, writer, nreq>>

\* time.time() moves on.
Tick ==
    /\ now + Quantum <= MaxNow
    /\ now' = now + Quantum
    /\ UNCHANGED <<RFMS_ENABLED, offVars, rfms_session, lock, calls, storeVars, writer, req, nreq>>

SessionNext ==
    \/ \E t \in Workers : SessionEnter(t) \/ SessionAnswer(t) \/ Return(t)
    \/ Tick

SessionSpec == Init /\ [][SessionNext]_vars

\* Requests to mark time off.  JSON true is IntV(1); a missing key is NoneV.
OffEvery == [estimator_id |-> IntV(1), recurring |-> IntV(1), day_of_week |-> IntV(1),
             label |-> NoneV, dates |-> <<>>]
OffEveryLabelled == [OffEvery EXCEPT !.estimator_id = T("1"), !.label = T("L")]
OffEveryNoDay == [OffEvery EXCEPT !.day_of_week = NoneV]
OffDates == [estimator_id |-> IntV(1), recurring |-> NoneV, day_of_week |-> NoneV,
             label |-> NoneV, dates |-> <<T("d1"), T("d1")>>]
OffDate == [OffDates EXCEPT !.estimator_id = T("1"), !.label = T("L"),
                            !.dates = <<T("d1")>>]
OffNoEstimator == [OffDate EXCEPT !.estimator_id = NoneV]
TimeoffPayloads == {OffEvery, OffEveryLabelled, OffEveryNoDay, OffDates, OffDate,
                    OffNoEstimator}

(* --------------------------- create_timeoff ---------------------------- *)
\* Lines 546-551 and 558: the request is read.
CreateTimeoff(t) ==
    /\ Takes(t)
    /\ nreq < MaxRequests
    /\ \E data \in TimeoffPayloads :
         req' = [req EXCEPT ![t] =
                    [Idle EXCEPT !.op = "timeoff", !.data = data, !.dates = data.dates,
                                 !.pc = IF Truthy(data.recurring) THEN "off_recurring"
                                        ELSE "off_dates"]]
    /\ nreq' = nreq + 1
    /\ UNCHANGED <<RFMS_ENABLED, offVars, storeVars, writer, sessionVars>>

\* The label of line 550.
OffLabel(data) == IF data.label = NoneV THEN T("Off") ELSE data.label

\* Lines 552-556 and 565-566: the DELETE takes the store's write lock, the
\* INSERT follows and both are committed.  A NULL estimator_id breaks NOT NULL:
\* sqlite3.IntegrityError, which nothing catches, and the DELETE is rolled back.
TimeoffRecurring(t) ==
    /\ req[t].pc = "off_recurring"
    /\ writer = NoWorker
    /\ LET data == req[t].data
           new == OffRow(offseq + 1, data.estimator_id, NoneV, data.day_of_week,
                         OffLabel(data), 1)
           kept == {o \in time_off :
                       ~RecurringMatches(o, data.estimator_id, data.day_of_week)}
       IN  IF data.estimator_id = NoneV
           THEN /\ req' = [req EXCEPT ![t] = Done(@, 500)]
                /\ UNCHANGED offVars
           ELSE /\ time_off' = kept \cup {new}
                /\ offseq' = offseq + 1
                /\ req' = [req EXCEPT ![t] = Done(@, 201)]
    /\ UNCHANGED <<RFMS_ENABLED, storeVars, writer, sessionVars, nreq>>

\* Lines 559-561: the SELECT for the next date of the list, which sees the
\* committed rows and the ones this request has inserted.
TimeoffSelect(t) ==
    /\ req[t].pc = "off_dates"
    /\ req[t].dates # <<>>
    /\ LET existing == SelectOneOff(time_off \cup req[t].pending,
                                    req[t].data.estimator_id, Head(req[t].dates))
       IN  req' = [req EXCEPT ![t] =
               IF existing # {} THEN [@ EXCEPT !.dates = Tail(@)]
               ELSE [@ EXCEPT !.pc = "off_insert"]]
    /\ UNCHANGED <<RFMS_ENABLED, offVars, storeVars, writer, sessionVars, nreq>>

\* Lines 562-564: the INSERT, which takes the write lock and keeps it until
\* the commit.
TimeoffInsert(t) ==
    /\ req[t].pc = "off_insert"
    /\ writer \in {NoWorker, t}
    /\ LET data == req[t].data
           new == OffRow(offseq + 1, data.estimator_id, Head(req[t].dates), NoneV,
                         OffLabel(data), 0)
       IN  IF data.estimator_id = NoneV
           THEN /\ req' = [req EXCEPT ![t] = Done([@ EXCEPT !.pending = {}], 500)]
                /\ writer' = NoWorker
                /\ offseq' = offseq
           ELSE /\ req' = [req EXCEPT ![t] =
                       [@ EXCEPT !.pending = @ \cup {new}, !.dates = Tail(@),
                                 !.pc = "off_dates"]]
                /\ writer' = t
                /\ offseq' = offseq + 1
    /\ UNCHANGED <<RFMS_ENABLED, time_off, storeVars, sessionVars, nreq>>

\* Lines 565-566: the list is done; commit.
TimeoffCommit(t) ==
    /\ req[t].pc = "off_dates"
    /\ req[t].dates = <<>>
    /\ time_off' = time_off \cup req[t].pending
    /\ writer' = IF writer = t THEN NoWorker ELSE writer
    /\ req' = [req EXCEPT ![t] = Done(@, 201)]
    /\ UNCHANGED <<RFMS_ENABLED, offseq, storeVars, sessionVars, nreq>>

\* Lines 568-570: delete_timeoff is called with an id.
DeleteTimeoff(t) ==
    /\ Takes(t)
    /\ nreq < MaxRequests
    /\ \E tid \in 1..(offseq + 1) :
         req' = [req EXCEPT ![t] = [Idle EXCEPT !.op = "untimeoff", !.bid = tid,
                                                !.pc = "off_delete"]]
    /\ nreq' = nreq + 1
    /\ UNCHANGED <<RFMS_ENABLED, offVars, storeVars, writer, sessionVars>>

\* Lines 571-573: DELETE FROM time_off WHERE id=? and commit.
TimeoffDeleted(t) ==
    /\ req[t].pc = "off_delete"
    /\ writer = NoWorker
    /\ time_off' = {o \in time_off : o.id # req[t].bid}
    /\ req' = [req EXCEPT ![t] = Done(@, 200)]
    /\ UNCHANGED <<RFMS_ENABLED, offseq, storeVars, writer, sessionVars, nreq>>

(* ------------------- save_regions / save_estimators -------------------- *)
\* Lines 303-306 and 337-342: a roster is posted.
SaveRoster(t) ==
    /\ Takes(t)
    /\ nreq < MaxRequests
    /\ req' = [req EXCEPT ![t] = [Idle EXCEPT !.op = "roster", !.pc = "roster"]]
    /\ nreq' = nreq + 1
    /\ UNCHANGED <<RFMS_ENABLED, offVars, storeVars, writer, sessionVars>>

\* Lines 307-316 and 343-356: regions or estimators are written and committed;
\* bookings, booking_log and time_off are not touched.
RosterSaved(t) ==
    /\ req[t].pc = "roster"
    /\ writer = NoWorker
    /\ req' = [req EXCEPT ![t] = Done(@, 200)]
    /\ UNCHANGED <<RFMS_ENABLED, offVars, storeVars, writer, sessionVars, nreq>>

\* The program started without CRM credentials.
OffInit == Init /\ ~RFMS_ENABLED

\* Every operation that writes the store, on concurrent workers.
OffNext ==
    \E t \in Workers :
        \/ CreateBooking(t, {CreateA, CreateBlank})
        \/ InsertBooking(t)
        \/ LogCreated(t)
        \/ UpdateBooking(t, FewUpdatePayloads)
        \/ UpdateCommit(t)
        \/ DeleteBooking(t)
        \/ DeleteWrite(t)
        \/ CreateTimeoff(t)
        \/ TimeoffRecurring(t)
        \/ TimeoffSelect(t)
        \/ TimeoffInsert(t)
        \/ TimeoffCommit(t)
        \/ DeleteTimeoff(t)
        \/ TimeoffDeleted(t)
        \/ SaveRoster(t)
        \/ RosterSaved(t)
        \/ DbLocked(t)
        \/ Return(t)

OffSpec == OffInit /\ [][OffNext]_vars

\* Time off and bookings, one request after another.
OffSeqNext ==
    \/ CreateTimeoff(1)
    \/ TimeoffRecurring(1)
    \/ TimeoffSelect(1)
    \/ TimeoffInsert(1)
    \/ TimeoffCommit(1)
    \/ DeleteTimeoff(1)
    \/ TimeoffDeleted(1)
    \/ CreateBooking(1, {CreateA, CreateB})
    \/ InsertBooking(1)
    \/ LogCreated(1)
    \/ Return(1)

OffSeqSpec == OffInit /\ [][OffSeqNext]_vars

(* ----------------------------- rfms_call -------------------------------- *)
\* Lines 65-91: one rfms_call, the CRM answering session/begin (if asked) and
\* the request (if made) in any of the listed ways.  token is what line 70 got.
CallRfms(t) ==
    /\ Takes(t)
    /\ calls < MaxCalls
    /\ lock = NoWorker
    /\ calls' = calls + 1
    /\ \E auth \in AuthResponses, resp \in Responses :
         LET c == RfmsCall(RFMS_ENABLED, rfms_session, now, "customers", auth, resp)
             token == IF RFMS_ENABLED THEN RfmsGetSession(rfms_session, now, auth).ret
                      ELSE EmptyV
         IN  /\ rfms_session' = c.session
             /\ req' = [req EXCEPT ![t] =
                    Done([Idle EXCEPT !.op = "call", !.pc = "call", !.now = now,
                                      !.net = c.net, !.token = token, !.res = c.res], 0)]
    /\ UNCHANGED <<RFMS_ENABLED, offVars, lock, now, storeVars, writer, nreq>>

CallNext ==
    \/ \E t \in Workers : CallRfms(t) \/ Return(t)
    \/ Tick

CallSpec == Init /\ [][CallNext]_vars

(* ------------------------------ claims --------------------------------- *)
\* The step just taken is one of worker t's.
StepOf(t) == req'[t] # req[t]

\* Worker t's request ends in this step.
Ends(t) == req[t].pc # "done" /\ req'[t].pc = "done"

Success(r) == r.pc = "done" /\ r.status \in {200, 201}

CreatedOf(bid) == {i \in DOMAIN booking_log :
                      booking_log[i].booking_id = bid /\ booking_log[i].action = "Created"}

\* C1: in every reachable state no two rows of bookings have the same
\* (date, time_slot, estimator_id).
C1_SlotsUnique ==
    \A b1 \in bookings, b2 \in bookings : SlotOf(b1) = SlotOf(b2) => b1 = b2

\* Two requests passed the pre-check for one slot and the store's constraint
\* turned the second away.
C1_Witness ==
    \E t \in Workers, b \in bookings :
        /\ req[t].op = "create" /\ req[t].pc = "done"
        /\ req[t].status = 409 /\ req[t].stage = "insert"
        /\ SlotOf(b) = SlotOf(NewBooking(0, req[t]))

\* Only create_booking requests have been served so far.
OnlyCreates ==
    /\ \A t \in Workers : req[t].op \in {"none", "create"}
    /\ \A i \in DOMAIN booking_log : booking_log[i].action = "Created"

\* C2: while only valid create requests are served, each ends with 201 or 409;
\* a 409 means another request's row holds the slot; a 201 means this request's
\* row holds it (so, rows being unique per slot, one request per slot has won).
C2_OneWinnerPerSlot ==
    OnlyCreates =>
        \A t \in Workers :
            (req[t].pc = "done" /\ req[t].status # 400) =>
                /\ req[t].status \in {201, 409}
                /\ req[t].status = 409 =>
                       \E b \in bookings : SlotOf(b) = SlotOf(NewBooking(0, req[t]))
                /\ req[t].status = 201 =>
                       \E b \in bookings : b = NewBooking(req[t].bid, req[t])

\* C3: every row of bookings has exactly one Created entry in booking_log, in
\* every state other requests can see.
C3_EveryBookingLogged ==
    \A b \in bookings : Cardinality(CreatedOf(b.id)) = 1

ActionOf(op) == CASE op = "create" -> "Created"
                  [] op = "update" -> "Edited"
                  [] op = "delete" -> "Cancelled"
                  [] OTHER -> "none"

\* C4: the step that ends a request with success appends exactly one entry to
\* booking_log, with the request's action and booking id; every other step of a
\* request leaves booking_log as it is.
C4_OneEntryPerSuccess ==
    [][\A t \in Workers :
          StepOf(t) =>
              IF Ends(t) /\ Success(req'[t])
              THEN /\ Len(booking_log') = Len(booking_log) + 1
                   /\ SubSeq(booking_log', 1, Len(booking_log)) = booking_log
                   /\ booking_log'[Len(booking_log')].action = ActionOf(req'[t].op)
                   /\ booking_log'[Len(booking_log')].booking_id = req'[t].bid
              ELSE booking_log' = booking_log]_vars

\* A create, an edit or a cancel has just succeeded and its entry is the last.
C4_Witness ==
    \E t \in Workers :
        /\ Success(req[t])
        /\ req[t].op \in {"update", "delete"}
        /\ booking_log # <<>>
        /\ booking_log[Len(booking_log)].action = ActionOf(req[t].op)
        /\ \E i \in DOMAIN booking_log : booking_log[i].action = "Created"

\* A create request that passed validation and the pre-check.
PassedPreCheck(r) == r.op = "create" /\ r.pc = "done" /\ r.stage # "idle"

\* Some fragment of parts starts with the words of prefix.
HasFragment(parts, prefix) ==
    \E i \in DOMAIN parts :
        /\ Len(parts[i]) >= Len(prefix)
        /\ SubSeq(parts[i], 1, Len(prefix)) = prefix

\* C5: with the CRM enabled, a create request that passed validation and the
\* pre-check, served alone, ends with 201 and its row in bookings whatever the
\* CRM answered; a customer or estimate step that produced no id left its
\* "failed" fragment in the returned log, which is the Created entry's detail.
C5_CrmNeverAbortsCreate ==
    \A t \in Workers :
        (RFMS_ENABLED /\ PassedPreCheck(req[t])) =>
            /\ req[t].status = 201
            /\ NewBooking(req[t].bid, req[t]) \in bookings
            /\ req[t].rfms_cust_id = <<>> =>
                   HasFragment(req[t].rfms_log_parts, <<"RFMS customer creation failed: ">>)
            /\ (req[t].rfms_cust_id # <<>> /\ req[t].rfms_est_id = <<>>) =>
                   HasFragment(req[t].rfms_log_parts, <<"RFMS estimate creation failed: ">>)
            /\ req[t].logs = <<CreatedEntry(req[t])>>
            /\ booking_log # <<>> /\ booking_log[Len(booking_log)] = CreatedEntry(req[t])

\* C6: with the CRM disabled, a create request that passed validation and the
\* pre-check, served alone, ends with 201, its row has empty rfms_customer_id and
\* rfms_estimate_id, and the returned log holds a fragment about the CRM sync.
C6_DisabledCreateLogsFragment ==
    \A t \in Workers :
        (~RFMS_ENABLED /\ PassedPreCheck(req[t])) =>
            /\ req[t].status = 201
            /\ \E b \in bookings :
                   /\ b = NewBooking(req[t].bid, req[t])
                   /\ b.rfms_customer_id = EmptyV /\ b.rfms_estimate_id = EmptyV
            /\ req[t].rfms_log_parts # <<>>

\* The threads whose session/begin is in flight.
InFlight == {t \in Workers : req[t].pc = "begin"}

\* Thread t has returned a token from rfms_get_session.
GotToken(t) == req[t].op = "session" /\ req[t].pc = "done" /\ Truthy(req[t].token)

\* C10: at most one session/begin is in flight; the thread it belongs to holds
\* the lock and the cache is still as stale as that thread found it; and of the
\* threads that read the same clock and returned a token, at most one asked the
\* CRM and all returned the same token.
C10_OneAuthenticationAtATime ==
    /\ Cardinality(InFlight) <= 1
    /\ \A t \in InFlight : lock = t /\ ~SessionFresh(rfms_session, req[t].now)
    /\ \A t \in Workers, u \in Workers :
           (t # u /\ GotToken(t) /\ GotToken(u) /\ req[t].now = req[u].now) =>
               /\ req[t].token = req[u].token
               /\ req[t].net = <<>> \/ req[u].net = <<>>

\* Two threads called with the cache stale at the same clock reading; one asked
\* the CRM and got a token, the other returned it from the cache.
C10_Witness ==
    \E t \in Workers, u \in Workers :
        /\ t # u /\ GotToken(t) /\ GotToken(u) /\ req[t].now = req[u].now
        /\ req[t].net = <<"session/begin">> /\ req[u].net = <<>>
        /\ req[t].now >= SESSION_TTL - SESSION_MARGIN

\* Thread t enters rfms_get_session in this step.
Enters(t) == req[t].pc = "idle" /\ req'[t].op = "session"

\* Thread t's session/begin is answered in this step.
Answered(t) == req[t].pc = "begin" /\ req'[t].pc = "done"

\* C11: a call returns the cached token, with no request made and the cache left
\* alone, exactly when the cache holds a non-empty token that expires more than
\* 60 seconds after the clock reading; otherwise it posts session/begin, and an
\* answer that yields a token is cached with expiry 1200 seconds after that
\* reading.
C11_CachedOrRenewed ==
    [][\A t \in Workers :
          /\ Enters(t) =>
                IF rfms_session.token # EmptyV /\ rfms_session.expires > now + 60
                THEN /\ req'[t].pc = "done" /\ req'[t].token = rfms_session.token
                     /\ req'[t].net = <<>>
                     /\ rfms_session' = rfms_session
                ELSE /\ req'[t].pc = "begin"
                     /\ req'[t].net = <<"session/begin">>
                     /\ rfms_session' = rfms_session
          /\ (Answered(t) /\ req'[t].token # EmptyV) =>
                /\ req'[t].token = req'[t].resp.body.sessionToken
                /\ rfms_session' = [token |-> req'[t].token,
                                    expires |-> req[t].now + 1200]]_vars

\* One thread renewed the token while the clock moved on, another was served
\* from the cache, and the cache expires 1200 seconds after the renewal began.
C11_Witness ==
    \E t \in Workers, u \in Workers :
        /\ GotToken(t) /\ req[t].net = <<"session/begin">>
        /\ req[t].now > 0 /\ now > req[t].now
        /\ rfms_session = [token |-> req[t].token, expires |-> req[t].now + 1200]
        /\ GotToken(u) /\ req[u].net = <<>> /\ req[u].now > req[t].now

\* session/begin failed: no response, an error status, or no sessionToken in it.
AuthFailed(resp) ==
    \/ ~resp.transport
    \/ resp.status >= 400
    \/ resp.content # "json"
    \/ resp.body.ty # "dict"
    \/ resp.body.sessionToken \in {NoneV, EmptyV}

\* C12: when session/begin fails (network error, error status, no sessionToken
\* in the response) the call returns the empty token and the cached token and
\* expiry stay as they were.
C12_FailureKeepsCache ==
    [][\A t \in Workers :
          (Answered(t) /\ AuthFailed(req'[t].resp)) =>
              /\ req'[t].token = EmptyV
              /\ rfms_session' = rfms_session]_vars

\* A renewal failed after the cached token had gone stale, and the stale token
\* is still in the cache.
C12_Witness ==
    \E t \in Workers :
        /\ req[t].op = "session" /\ req[t].pc = "done"
        /\ req[t].net = <<"session/begin">> /\ AuthFailed(req[t].resp)
        /\ req[t].token = EmptyV
        /\ rfms_session.token # EmptyV
        /\ rfms_session.expires <= req[t].now + 60

\* An rfms_call that thread t has finished.
Called(t) == req[t].op = "call" /\ req[t].pc = "done"

\* C13: an rfms_call makes its request only with the CRM enabled and a
\* non-empty token in hand; with the CRM disabled it makes no request at all,
\* session/begin included, and leaves the cache alone; without a token it makes
\* no request beyond session/begin; either way it returns no body and an error.
C13_RequestNeedsSwitchAndToken ==
    \A t \in Workers :
        Called(t) =>
            /\ (\E i \in DOMAIN req[t].net : req[t].net[i] = "customers") =>
                   RFMS_ENABLED /\ req[t].token # EmptyV
            /\ ~RFMS_ENABLED =>
                   /\ req[t].net = <<>>
                   /\ rfms_session = [token |-> EmptyV, expires |-> 0]
                   /\ ~req[t].res.data.has /\ req[t].res.err = <<"RFMS not configured">>
            /\ (RFMS_ENABLED /\ req[t].token = EmptyV) =>
                   /\ req[t].net = <<"session/begin">>
                   /\ ~req[t].res.data.has
                   /\ req[t].res.err = <<"Could not get RFMS session">>

\* With the CRM disabled a call came back with the error and nothing sent.
C13_Witness ==
    \E t \in Workers :
        /\ Called(t) /\ ~RFMS_ENABLED
        /\ req[t].net = <<>> /\ req[t].res.err = <<"RFMS not configured">>
        /\ calls = 2

\* Where request e stands in the trace net of requests made (0: not made).
RECURSIVE Pos(_, _)
Pos(net, e) == IF net = <<>> THEN 0
               ELSE IF Pos(SubSeq(net, 1, Len(net) - 1), e) # 0
                    THEN Pos(SubSeq(net, 1, Len(net) - 1), e)
               ELSE IF net[Len(net)] = e THEN Len(net) ELSE 0

\* Request a, if made, was made before request b, if made.
Before(net, a, b) == (Pos(net, a) # 0 /\ Pos(net, b) # 0) => Pos(net, a) < Pos(net, b)

\* The CRM steps of create request r came in the order of lines 406-427.
CrmOrdered(r) ==
    /\ Before(r.net, "customers?search", "customers")
    /\ \A a \in {"customers?search", "customers"}, b \in {"estimates", "opportunities"} :
           Before(r.net, a, b)
    /\ Before(r.net, "estimates", "opportunities")
    /\ HasFragment(r.rfms_log_parts, <<"Found existing RFMS customer: ">>) =>
           Pos(r.net, "customers") = 0
    /\ (\/ Pos(r.net, "estimates") # 0 \/ Pos(r.net, "opportunities") # 0
        \/ HasFragment(r.rfms_log_parts, <<"Created RFMS estimate: ">>)
        \/ HasFragment(r.rfms_log_parts, <<"RFMS estimate creation failed: ">>)) =>
           r.rfms_cust_id # <<>>

\* C14: in a create request served alone the CRM steps come in order (search,
\* then customer creation only without an id from the search, then the estimate
\* only with a customer id); the row is inserted after the last CRM step, with
\* exactly the ids obtained; the Created entry is appended when the row is
\* already in the table; and no CRM step follows the insert.
C14_StepsInOrder ==
    [][\A t \in Workers :
          (StepOf(t) /\ req'[t].op = "create") =>
              /\ CrmOrdered(req'[t])
              /\ req[t].pc \in {"insert", "log"} =>
                     /\ req'[t].net = req[t].net
                     /\ req'[t].rfms_cust_id = req[t].rfms_cust_id
                     /\ req'[t].rfms_est_id = req[t].rfms_est_id
              /\ bookings' # bookings =>
                     /\ req[t].pc = "insert"
                     /\ \E b \in bookings' \ bookings :
                            /\ bookings' = bookings \cup {b}
                            /\ b.id = req'[t].bid
                            /\ b.rfms_customer_id = StrV(req[t].rfms_cust_id)
                            /\ b.rfms_estimate_id = StrV(req[t].rfms_est_id)
                     /\ booking_log' = booking_log
              /\ booking_log' # booking_log =>
                     /\ req[t].pc = "log"
                     /\ \E b \in bookings : b.id = req[t].bid
                     /\ bookings' = bookings]_vars

\* A create made all four CRM requests, the second estimate post gave an id, and
\* the row holds both ids.
C14_Witness ==
    \E t \in Workers, b \in bookings :
        /\ req[t].op = "create" /\ req[t].pc = "done" /\ req[t].status = 201
        /\ Pos(req[t].net, "customers?search") # 0 /\ Pos(req[t].net, "customers") # 0
        /\ Pos(req[t].net, "estimates") # 0 /\ Pos(req[t].net, "opportunities") # 0
        /\ b.id = req[t].bid
        /\ b.rfms_customer_id # EmptyV /\ b.rfms_estimate_id # EmptyV

EditChangesNothing(t) ==
    /\ StepOf(t) /\ req'[t].op = "update" /\ Ends(t)
    /\ req[t].pc \in {"update", "commit"}
    /\ SelectId(bookings, req[t].bid) # {}
    /\ bookings' = bookings

\* C17: an edit served alone that leaves every editable field of an existing
\* booking as it was succeeds and appends an Edited entry whose details are
\* exactly "Opened and saved (no changes)".
C17_NoChangeDetail ==
    [][\A t \in Workers :
          EditChangesNothing(t) =>
              /\ Success(req'[t])
              /\ Len(booking_log') = Len(booking_log) + 1
              /\ booking_log'[Len(booking_log')].action = "Edited"
              /\ booking_log'[Len(booking_log')].booking_id = req[t].bid
              /\ booking_log'[Len(booking_log')].details =
                     <<"Opened and saved (no changes)">>]_vars

\* C16: booking_log is append-only.  Whatever step the program takes (a create,
\* an edit, a cancel, a time-off or a roster operation), every entry the log held
\* before the step is still there after it, at the same place and with the same
\* booking_id, action, changed_by and details.
C16_LogAppendOnly ==
    [][\A i \in DOMAIN booking_log :
          /\ i \in DOMAIN booking_log'
          /\ booking_log'[i] = booking_log[i]]_vars

\* A booking was created and logged, and afterwards another operation on the
\* store (a cancel, an edit, a time-off or a roster operation) went through.
C16_Witness ==
    /\ Len(booking_log) >= 1
    /\ booking_log[1].action = "Created"
    /\ \E t \in Workers :
          /\ req[t].pc = "done"
          /\ req[t].op \in {"delete", "update", "timeoff", "untimeoff", "roster"}
          /\ req[t].status \in {200, 201}

\* The recurring entries of a pair (estimator_id, day_of_week).
RecurringOf(rows, e, w) ==
    {o \in rows : o.recurring = 1 /\ o.estimator_id = e /\ o.day_of_week = w}

\* C18: after any sequence of time-off creations and deletions, concurrent ones
\* included, time_off holds at most one recurring entry per
\* (estimator_id, day_of_week).
C18_OneRecurringPerPair ==
    \A o \in time_off :
        o.recurring = 1 =>
            Cardinality(RecurringOf(time_off, o.estimator_id, o.day_of_week)) = 1

\* The one-off entries of a pair (estimator_id, date).
OneOffOf(rows, e, d) ==
    {o \in rows : o.recurring = 0 /\ o.estimator_id = e /\ o.date = d}

\* C19: after any sequence of one-off time-off creations, sequential or
\* concurrent, with or without a repeated date in the list, time_off holds at
\* most one one-off entry per (estimator_id, date).
C19_OneOffPerPair ==
    \A o \in time_off :
        o.recurring = 0 =>
            Cardinality(OneOffOf(time_off, o.estimator_id, o.date)) = 1

\* The calendar of the dates used here: d1 is a Tuesday (1), any other date a
\* Wednesday (2), with 0 = Monday.
WeekdayOf(date) == IF date = T("d1") THEN IntV(1) ELSE IntV(2)

\* The exclusion rule: a one-off entry for the estimator and the date, or a
\* recurring entry for the estimator and the date's weekday.
IsTimeOff(rows, estimator_id, date) ==
    \E o \in rows :
        /\ o.estimator_id = IntegerAffinity(estimator_id)
        /\ \/ o.recurring = 0 /\ o.date = TextAffinity(date)
           \/ o.recurring = 1 /\ o.day_of_week = WeekdayOf(TextAffinity(date))

\* C20: create_booking honours time off.  A create request whose estimator is
\* excluded on the requested date, by a one-off entry or by a recurring entry,
\* persists no booking: the step that would insert the row leaves bookings alone.
C20_ExcludedNotBooked ==
    [][\A t \in Workers :
          (/\ StepOf(t)
           /\ req[t].op = "create"
           /\ IsTimeOff(time_off, Get(req[t].data, "estimator_id", NoneV),
                        Stripped(req[t].data, "date")))
              => bookings' = bookings]_vars

\* The text part occurs in the text whole.
Occurs(part, whole) ==
    \E i \in 1..(Len(whole) - Len(part) + 1) :
        SubSeq(whole, i, i + Len(part) - 1) = part

\* The log's rendering of a stored value.
StoredText(v) == PyStr(Or(v, EmptyV))

\* C21: the details of the Edited entry of a successful edit hold the fragment
\* 'Label: "old" -> "new"' of a field of the fixed list exactly when the stored
\* value of that field differs before and after the UPDATE, old and new being
\* those stored values; a field left as it was has no fragment.
C21_DiffMatchesStore ==
    [][\A t \in Workers :
          (StepOf(t) /\ req[t].op = "update" /\ Success(req'[t])) =>
              \A b \in SelectId(bookings, req[t].bid), a \in SelectId(bookings', req[t].bid) :
                  \A i \in DOMAIN Fields :
                      LET key == Fields[i][1]
                          label == Fields[i][2]
                          details == booking_log'[Len(booking_log')].details
                      IN  IF b[key] # a[key]
                          THEN Occurs(Fragment(label, StoredText(b[key]), StoredText(a[key])),
                                      details)
                          ELSE ~Occurs(<<label, ": \"">>, details)]_vars

\* The places of booking bid's entries in the log, and their actions in order.
EntriesOf(log, bid) == {i \in DOMAIN log : log[i].booking_id = bid}

\* Booking bid's entries read Created, then Edited any number of times, then at
\* most one Cancelled.
TrailInOrder(log, bid) ==
    \A i \in EntriesOf(log, bid) :
        LET earlier == {j \in EntriesOf(log, bid) : j < i}
        IN  /\ log[i].action = "Created" <=> earlier = {}
            /\ \A j \in earlier : log[j].action # "Cancelled"

\* C22: whatever the interleaving of concurrent create, edit and cancel
\* requests, the entries of each booking id read, in append order, one Created,
\* then any number of Edited, then at most one Cancelled; and a step that
\* appends an Edited or Cancelled entry does so for an id whose row exists.
C22_TrailPerBooking ==
    [][/\ \A bid \in 1..(seq' + 1) : TrailInOrder(booking_log', bid)
       /\ \A i \in DOMAIN booking_log' \ DOMAIN booking_log :
             booking_log'[i].action \in {"Edited", "Cancelled"} =>
                 SelectId(bookings, booking_log'[i].booking_id) # {}]_vars

\* The requests to the CRM that create a customer or an opportunity.
CreationCalls == {"customers", "estimates", "opportunities"}

\* C23: a create request that ended rejected, for a missing field (400) or a
\* taken slot (409), has sent the CRM no customer-creation and no
\* opportunity-creation request, whatever other requests ran beside it.
C23_RejectedCreateCallsNoCrm ==
    \A t \in Workers :
        (/\ req[t].op = "create"
         /\ req[t].pc = "done"
         /\ req[t].status \in {400, 409})
            => \A i \in DOMAIN req[t].net : req[t].net[i] \notin CreationCalls

\* C7: no step of a create request that is rejected (400, or 409 from the
\* pre-check or from the constraint) changes bookings or booking_log.
C7_RejectedCreateWritesNothing ==
    [][\A t \in Workers :
          (/\ StepOf(t)
           /\ req'[t].op = "create"
           /\ \/ req'[t].pc \in {"sync", "insert"}
              \/ req'[t].pc = "done" /\ req'[t].status \in {400, 409})
          => UNCHANGED <<bookings, seq, booking_log>>]_vars

\* A create was turned away by the constraint after its CRM phase, and another
\* was turned away for a blank field.
C7_Witness ==
    \E t \in Workers :
        /\ req[t].op = "create" /\ req[t].pc = "done" /\ req[t].status = 409
        /\ req[t].stage = "insert" /\ req[t].net # <<>>
        /\ bookings # {}

\* C8: an edit or a cancel that finds no row for its id (the edit when it loads
\* the booking, the cancel when it writes) answers 404 and changes neither table.
C8_MissingIdIsNotFound ==
    [][\A t \in Workers :
          (/\ StepOf(t)
           /\ \/ req[t].pc = "idle" /\ req'[t].op = "update"
              \/ req[t].pc = "delete" /\ writer = NoWorker
           /\ SelectId(bookings, req'[t].bid) = {})
          => /\ req'[t].pc = "done" /\ req'[t].status = 404
             /\ UNCHANGED <<bookings, booking_log>>]_vars

\* C9: a step of an update request keeps the ids of bookings, the date,
\* time_slot and estimator_id of every row, and the rows other than the edited
\* one whole.
C9_EditKeepsSlot ==
    [][\A t \in Workers :
          (StepOf(t) /\ req'[t].op = "update") =>
              /\ {b.id : b \in bookings'} = {b.id : b \in bookings}
              /\ \A b \in bookings, c \in bookings' :
                     b.id = c.id =>
                         /\ SlotOf(c) = SlotOf(b)
                         /\ b.id # req'[t].bid => c = b]_vars

\* An edit whose payload names another date, slot and estimator has been applied
\* to a booking.
C9_Witness ==
    \E t \in Workers, b \in bookings :
        /\ req[t].op = "update" /\ Success(req[t]) /\ req[t].rows = 1
        /\ b.id = req[t].bid
        /\ b.notes = req[t].data["notes"]
        /\ req[t].data["date"] # NoneV /\ req[t].data["date"] # b.date
        /\ req[t].data["estimator_id"] # b.estimator_id

====
